---- MODULE Spec2Model ----
(***************************************************************************)
(* pdf2any: the task ledger (app/tasks.py), the upload handler and the     *)
(* query endpoints (app/main.py) and the workflow process_pdf              *)
(* (app/workflow_manager.py) with the stages of app/processing.py.         *)
(*                                                                         *)
(* The program runs on one asyncio event loop: the code between two        *)
(* suspension points runs without interleaving, so each action below is    *)
(* one such run of a coroutine.                                            *)
(***************************************************************************)
EXTENDS Naturals, Sequences, FiniteSets, TLC

(* ---------------------------------------------------------------- bounds *)

\* Number of task ids (uuid4 values) the model draws uploads from.
NumTasks == 2

\* Number of ledger calls a behaviour of LedgerSpec makes.
MaxCalls == 4

\* Number of entries of data['tables'] in the responses DocSpec starts from.
MaxTables == 2

(* ---------------------------------------------------------------- values *)

\* A key that is not in a task's dict.
ABSENT == "<absent>"

\* Python's None.
NONE == "<None>"

\* Python truthiness of an optional string argument: None and '' are falsy.
Truthy(x) == x # NONE /\ x # ""

TaskIds == {"t" \o ToString(i) : i \in 1..NumTasks}

(* ------------------------------------------------------- ledger (tasks.py) *)

VARIABLES
    task_status,  \* tasks.task_status: task id -> dict, DOMAIN = the known ids
    writes,       \* history: per task id, every value assigned to 'status', in order
    lastCall,     \* history: the ledger call made by the last step of LedgerSpec
    ncalls,       \* number of ledger calls made so far in LedgerSpec
    pcH,          \* per task id, where its upload handler is
    pcW,          \* per task id, where its process_pdf coroutine is
    running,      \* the coroutine that holds the event loop between two steps, or NONE
    gemini,       \* processing.gemini (and processing.types) is not None
    ocr_ready,    \* pytesseract, Image, convert_from_bytes, storage_client are not None
    invoked,      \* history: per task id, the stages process_pdf has called, in order
    raised,       \* history: per task id, the stage that raised and str(e), or NoRaise
    resp,         \* the last HTTP response sent
    pcD,          \* where the document of DocSpec is: received, extracted, ..., rendered
    response_data,  \* what gemini.generate_content_async returned to extract_with_gemini
    ocr_text,     \* what perform_ocr returned
    extracted_json, \* what extract_with_gemini returned
    final_json,   \* what reconcile_with_gemini returned
    workbook      \* what _write_excel_sheets wrote

\* The variables of the document path.
DocVars == << pcD, response_data, ocr_text, extracted_json, final_json, workbook >>

vars == << task_status, writes, lastCall, ncalls, pcH, pcW, running, gemini,
           ocr_ready, invoked, raised, resp, pcD, response_data, ocr_text,
           extracted_json, final_json, workbook >>

(* ----------------------------------------------- Python values (JSON data) *)

\* A str is the sequence of its characters; a Python value is a record of its
\* type (`kind`), its items (dict: << key, value >> pairs in insertion order,
\* list: its elements) and its text (str: the characters, number: the digits).
PyDict(items) == [ kind |-> "dict", items |-> items, text |-> << >> ]
PyList(items) == [ kind |-> "list", items |-> items, text |-> << >> ]
PyStr(text) == [ kind |-> "str", items |-> << >>, text |-> text ]
PyNum(text) == [ kind |-> "number", items |-> << >>, text |-> text ]
PyNone == [ kind |-> "None", items |-> << >>, text |-> << >> ]

\* isinstance(v, dict), isinstance(v, list), isinstance(v, str)
IsDict(v) == v.kind = "dict"
IsList(v) == v.kind = "list"
IsStr(v) == v.kind = "str"

\* `key in d`
Has(d, key) == \E i \in 1..Len(d.items) : d.items[i][1] = key

\* d.get(key): None for a key that is not in d
Get(d, key) ==
    IF Has(d, key)
    THEN d.items[CHOOSE i \in 1..Len(d.items) : d.items[i][1] = key][2]
    ELSE PyNone

\* d[key] = value: an existing key keeps its place, a new key goes last
SetKey(d, key, value) ==
    IF Has(d, key)
    THEN PyDict([ i \in 1..Len(d.items) |->
                    IF d.items[i][1] = key THEN << key, value >> ELSE d.items[i] ])
    ELSE PyDict(Append(d.items, << key, value >>))

\* The keys and texts the code names.
kMetadata == << "m", "e", "t", "a", "d", "a", "t", "a" >>
kKeyValuePairs ==
    << "k", "e", "y", "_", "v", "a", "l", "u", "e", "_", "p", "a", "i", "r", "s" >>
kTextSections == << "t", "e", "x", "t", "_", "s", "e", "c", "t", "i", "o", "n", "s" >>
kTables == << "t", "a", "b", "l", "e", "s" >>
kTableTitle == << "t", "a", "b", "l", "e", "_", "t", "i", "t", "l", "e" >>
kHeaders == << "h", "e", "a", "d", "e", "r", "s" >>
kRows == << "r", "o", "w", "s" >>
kRawResponse == << "r", "a", "w", "_", "r", "e", "s", "p", "o", "n", "s", "e" >>
kError == << "e", "r", "r", "o", "r" >>
sUnexpectedResponseType ==
    << "U", "n", "e", "x", "p", "e", "c", "t", "e", "d", " ", "r", "e", "s", "p", "o",
       "n", "s", "e", " ", "t", "y", "p", "e" >>

\* Texts that json.loads decodes, with what it gives for each.
tEmptyList == << "[", "]" >>
tNumber == << "7" >>
tNull == << "n", "u", "l", "l" >>
tEmptyObject == << "{", "}" >>
tObjectBadTables ==
    << "{", "\"", "t", "a", "b", "l", "e", "s", "\"", ":", " ", "7", "}" >>

JsonTexts == { tEmptyList, tNumber, tNull, tEmptyObject, tObjectBadTables }

\* json.loads(text) for a text of JsonTexts; every other text of the model is
\* not JSON and makes json.loads raise JSONDecodeError.
json_loads(text) ==
    CASE text = tEmptyList -> PyList(<< >>)
      [] text = tNumber -> PyNum(<< "7" >>)
      [] text = tNull -> PyNone
      [] text = tEmptyObject -> PyDict(<< >>)
      [] text = tObjectBadTables -> PyDict(<< << kTables, PyNum(<< "7" >>) >> >>)

\* str(v) for the values extract_with_gemini applies it to: a str is itself, a
\* number its digits, None is 'None', an empty list is '[]'.
PyStrOf(v) ==
    CASE v.kind \in { "str", "number" } -> v.text
      [] v.kind = "None" -> << "N", "o", "n", "e" >>
      [] v.kind = "list" /\ v.items = << >> -> << "[", "]" >>

(* ----------------------- extract_with_gemini: the response made a document *)

\* Lines 354-357 and 371-373: the three other keys, added when they are missing.
FillMissing(d) ==
    LET d1 == IF Has(d, kMetadata) THEN d ELSE SetKey(d, kMetadata, PyDict(<< >>))
        d2 == IF Has(d1, kKeyValuePairs) THEN d1
              ELSE SetKey(d1, kKeyValuePairs, PyDict(<< >>))
    IN  IF Has(d2, kTextSections) THEN d2 ELSE SetKey(d2, kTextSections, PyDict(<< >>))

\* FixTables that leaves 'tables' as it came.
FixTables_keep(d) == d

\* Lines 341-343 and 370: a 'tables' that is not a list becomes [].
FixTables(d) ==
    IF IsList(Get(d, kTables)) THEN d ELSE SetKey(d, kTables, PyList(<< >>))

\* Lines 379-384: the default structure with the raw response.
Fallback(v) ==
    PyDict(<< << kMetadata, PyDict(<< << kError, PyStr(sUnexpectedResponseType) >> >>) >>,
              << kKeyValuePairs, PyDict(<< << kRawResponse, PyStr(PyStrOf(v)) >> >>) >>,
              << kTextSections, PyDict(<< >>) >>,
              << kTables, PyList(<< >>) >> >>)

\* What extract_with_gemini makes of response_data (lines 336-388): the document
\* it returns, or the exception it raises. parsed_data.get on a decoded value
\* that is not a dict is an AttributeError, which line 386 wraps and raises.
extract_with_gemini(v) ==
    IF IsDict(v)
    THEN [ raises |-> FALSE, doc |-> FillMissing(FixTables(v)) ]
    ELSE IF IsStr(v) /\ v.text \in JsonTexts
         THEN IF IsDict(json_loads(v.text))
              THEN [ raises |-> FALSE, doc |-> FillMissing(FixTables(json_loads(v.text))) ]
              ELSE [ raises |-> TRUE, doc |-> PyNone ]
         ELSE [ raises |-> FALSE, doc |-> Fallback(v) ]

(* ------------------------------------------------- reconcile_with_gemini *)

\* MAX_OCR_LEN of reconcile_with_gemini
MAX_OCR_LEN == 300000

\* len(ocr_text): the text is held as its first characters and the number of
\* characters that follow them.
TextLen(text) == Len(text.head) + text.more

\* len(ocr_text_for_prompt), lines 414-418: the text cut at MAX_OCR_LEN, with
\* the 26 characters of the truncation note after it.
PromptLen(text) ==
    IF TextLen(text) > MAX_OCR_LEN THEN MAX_OCR_LEN + 26 ELSE TextLen(text)

\* reconcile_with_gemini that returns a document without its tables.
reconcile_with_gemini_lossy(extracted, text) ==
    SetKey(extracted, kTables, PyList(<< >>))

\* reconcile_with_gemini with the client present: `return extracted_json`, line
\* 429; the prompt text of lines 401-423 is built and not used.
reconcile_with_gemini(extracted, text) == extracted

(* ----------------------------------------------------- _write_excel_sheets *)

sSummary == << "S", "u", "m", "m", "a", "r", "y" >>
sTextSectionsSheet ==
    << "T", "e", "x", "t", " ", "S", "e", "c", "t", "i", "o", "n", "s" >>
sInfo == << "I", "n", "f", "o" >>
sField == << "F", "i", "e", "l", "d" >>
sValue == << "V", "a", "l", "u", "e" >>
sSectionTitle == << "S", "e", "c", "t", "i", "o", "n", " ", "T", "i", "t", "l", "e" >>
sText == << "T", "e", "x", "t" >>
sStatus == << "S", "t", "a", "t", "u", "s" >>
sNoData ==
    << "N", "o", " ", "s", "t", "r", "u", "c", "t", "u", "r", "e", "d", " ", "d", "a",
       "t", "a", " ", "e", "x", "t", "r", "a", "c", "t", "e", "d", " ", "o", "r", " ",
       "p", "r", "o", "c", "e", "s", "s", "e", "d" >>
sMeta == << "m", "e", "t", "a", "_" >>
sTable == << "T", "a", "b", "l", "e", "_" >>

\* str.isalnum() of one character, for the letters and digits of ASCII
Alnum ==
    { "a", "b", "c", "d", "e", "f", "g", "h", "i", "j", "k", "l", "m", "n", "o", "p",
      "q", "r", "s", "t", "u", "v", "w", "x", "y", "z",
      "A", "B", "C", "D", "E", "F", "G", "H", "I", "J", "K", "L", "M", "N", "O", "P",
      "Q", "R", "S", "T", "U", "V", "W", "X", "Y", "Z",
      "0", "1", "2", "3", "4", "5", "6", "7", "8", "9" }

\* The length sheet names are cut to.
SheetNameLen == 31

\* SafeSheetName without the cut.
SafeSheetName_uncut(title) ==
    [ i \in 1..Len(title) |-> IF title[i] \in Alnum THEN title[i] ELSE "_" ]

\* "".join(c if c.isalnum() else "_" for c in str(raw_title))[:31]
SafeSheetName(title) ==
    LET clean == [ i \in 1..Len(title) |-> IF title[i] \in Alnum THEN title[i] ELSE "_" ]
    IN  IF Len(clean) > SheetNameLen THEN SubSeq(clean, 1, SheetNameLen) ELSE clean

RECURSIVE Digits(_)
\* str(n) of a natural number
Digits(n) ==
    LET d == << "0", "1", "2", "3", "4", "5", "6", "7", "8", "9" >>[(n % 10) + 1]
    IN  IF n < 10 THEN << d >> ELSE Append(Digits(n \div 10), d)

\* table_info.get('table_title', f"Table_{i+1}") made a str; `index` counts from 1.
RawTitle(table_info, index) ==
    IF Has(table_info, kTableTitle)
    THEN PyStrOf(Get(table_info, kTableTitle))
    ELSE sTable \o Digits(index)

\* An empty workbook.
NoWorkbook == [ sheets |-> << >>, written |-> << >>, sheets_written |-> 0 ]

\* The cells a sheet holds after a frame is written over the cells it has:
\* every cell of the frame replaces the cell at its place, the others stay.
Overlay(old, new) ==
    [ i \in 1..(IF Len(old) > Len(new) THEN Len(old) ELSE Len(new)) |->
        IF i > Len(new) THEN old[i]
        ELSE IF i > Len(old) THEN new[i]
        ELSE new[i] \o SubSeq(old[i], Len(new[i]) + 1, Len(old[i])) ]

\* df.to_excel(writer, sheet_name=name, index=False) and `sheets_written += 1`:
\* the header row and the rows go to the sheet of that name, a new one when
\* the writer has none of that name and the one it has otherwise. `table` is
\* the place in data['tables'] the frame was made from, 0 for the other sheets.
to_excel(wb, name, table, header, rows) ==
    LET cells == << header >> \o rows
        at == { i \in 1..Len(wb.sheets) : wb.sheets[i].name = name }
    IN  [ sheets |->
              IF at = {}
              THEN Append(wb.sheets, [ name |-> name, cells |-> cells ])
              ELSE [ i \in 1..Len(wb.sheets) |->
                       IF i \in at
                       THEN [ name |-> name, cells |-> Overlay(wb.sheets[i].cells, cells) ]
                       ELSE wb.sheets[i] ],
          written |-> Append(wb.written, [ name |-> name, table |-> table,
                                           header |-> header, rows |-> rows ]),
          sheets_written |-> wb.sheets_written + 1 ]

RECURSIVE UpdateItems(_, _, _)
\* summary_data.update({prefix + k: v for k, v in items if k != 'raw_response'})
UpdateItems(summary_data, prefix, items) ==
    IF items = << >> THEN summary_data
    ELSE UpdateItems(IF items[1][1] = kRawResponse THEN summary_data
                     ELSE SetKey(summary_data, prefix \o items[1][1], items[1][2]),
                     prefix, Tail(items))

\* Lines 573-578
SummaryData(data) ==
    LET meta == Get(data, kMetadata)
        kv == Get(data, kKeyValuePairs)
        s1 == IF IsDict(meta) THEN UpdateItems(PyDict(<< >>), sMeta, meta.items)
              ELSE PyDict(<< >>)
    IN  IF IsDict(kv) THEN UpdateItems(s1, << >>, kv.items) ELSE s1

\* list(d.items()) as the rows of a two-column frame
ItemRows(d) == [ i \in 1..Len(d.items) |-> << PyStr(d.items[i][1]), d.items[i][2] >> ]

\* The test of lines 606-609 on one entry of data['tables'].
TableShapeOk(table_info) ==
    /\ IsDict(table_info)
    /\ IsList(Get(table_info, kHeaders))
    /\ IsList(Get(table_info, kRows))
    /\ Get(table_info, kRows).items # << >>

\* ValidRows with no row left out.
ValidRows_all(table_info) == Get(table_info, kRows).items

\* Lines 615-620: the rows that are lists, in their order.
ValidRows(table_info) == SelectSeq(Get(table_info, kRows).items, IsList)

\* pd.DataFrame(valid_rows, columns=headers) raises when the widest row does
\* not have as many cells as there are headers; line 648 catches it.
FrameRaises(valid_rows, headers) ==
    \E i \in 1..Len(valid_rows) :
        /\ \A j \in 1..Len(valid_rows) : Len(valid_rows[j].items) <= Len(valid_rows[i].items)
        /\ Len(valid_rows[i].items) # Len(headers.items)

\* The frame's rows: pandas fills the rows that are shorter with None.
FrameRows(valid_rows, width) ==
    [ i \in 1..Len(valid_rows) |->
        [ j \in 1..width |->
            IF j <= Len(valid_rows[i].items) THEN valid_rows[i].items[j] ELSE PyNone ] ]

\* Lines 637-644, the column widths, which run when to_excel has written the
\* sheet: for a header that occurs twice table_df[col] is a frame and not a
\* column, its .max() is a Series of two numbers, and max() of it and a number
\* raises; line 648 catches it.
WidthsRaise(headers) ==
    \E i, j \in 1..Len(headers.items) : i # j /\ headers.items[i] = headers.items[j]

\* Lines 630-649, the `try` of one table: the frame is written to its sheet, and
\* the sheet is counted if the lines after to_excel do not raise.
WriteTable(wb, name, index, headers, valid_rows) ==
    LET wb1 == to_excel(wb, name, index, headers.items,
                        FrameRows(valid_rows, Len(headers.items)))
    IN  IF WidthsRaise(headers)
        THEN [ wb1 EXCEPT !.sheets_written = wb.sheets_written ]
        ELSE wb1

RECURSIVE WriteTables(_, _, _)
\* Lines 604-651: the loop over data['tables'], from entry `index` on.
WriteTables(wb, tables, index) ==
    IF index > Len(tables) THEN wb
    ELSE LET table_info == tables[index]
             valid_rows == ValidRows(table_info)
             headers == Get(table_info, kHeaders)
             name == SafeSheetName(RawTitle(table_info, index))
         IN  IF TableShapeOk(table_info) /\ valid_rows # << >>
                  /\ ~FrameRaises(valid_rows, headers)
             THEN WriteTables(WriteTable(wb, name, index, headers, valid_rows),
                              tables, index + 1)
             ELSE WriteTables(wb, tables, index + 1)

\* WriteInfo when the last `if` is left out.
WriteInfo_never(wb) == wb

\* Lines 657-659: the Info sheet when no sheet was counted.
WriteInfo(wb) ==
    IF wb.sheets_written = 0
    THEN [ to_excel(wb, sInfo, 0, << PyStr(sStatus) >>, << << PyStr(sNoData) >> >>)
             EXCEPT !.sheets_written = 0 ]
    ELSE wb

\* _write_excel_sheets(data, output_path) for a dict `data`: the workbook it
\* leaves at output_path.
write_excel_sheets(data) ==
    LET summary_data == SummaryData(data)
        text == Get(data, kTextSections)
        tables == Get(data, kTables)
        wb1 == IF summary_data.items # << >>
               THEN to_excel(NoWorkbook, sSummary, 0, << PyStr(sField), PyStr(sValue) >>,
                             ItemRows(summary_data))
               ELSE NoWorkbook
        wb2 == IF IsDict(text) /\ text.items # << >>
               THEN to_excel(wb1, sTextSectionsSheet, 0,
                             << PyStr(sSectionTitle), PyStr(sText) >>, ItemRows(text))
               ELSE wb1
        wb3 == IF IsList(tables) THEN WriteTables(wb2, tables.items, 1) ELSE wb2
    IN  WriteInfo(wb3)

\* An OCR text: its first characters and the number of characters after them.
NoText == [ head |-> << >>, more |-> 0 ]

\* The document path has not started: no response, no document, no workbook.
DocIdle ==
    /\ pcD = "idle"
    /\ response_data = PyNone
    /\ ocr_text = NoText
    /\ extracted_json = PyNone
    /\ final_json = PyNone
    /\ workbook = NoWorkbook

\* The dict update_task_status creates for an unknown id (`{}`); a missing 'logs'
\* key and an empty list are not told apart: add_task_log turns the first into
\* the second before anything can read it.
EmptyEntry ==
    [ status |-> ABSENT, filename |-> ABSENT, result_file |-> ABSENT,
      gcs_uri |-> ABSENT, error |-> ABSENT, logs |-> << >> ]

\* Put when every id maps to one shared dict object.
Put_aliased(ts, task_id, entry) ==
    [ k \in DOMAIN ts \cup {task_id} |-> entry ]

\* dict assignment ts[task_id] = entry
Put(ts, task_id, entry) ==
    [ k \in DOMAIN ts \cup {task_id} |-> IF k = task_id THEN entry ELSE ts[k] ]

\* add_task_log with the entry put in front of the list.
add_task_log_front(ts, task_id, message) ==
    IF task_id \notin DOMAIN ts
    THEN ts
    ELSE [ ts EXCEPT ![task_id].logs = << message >> \o @ ]

\* add_task_log that makes the entry of an id it does not find.
add_task_log_creating(ts, task_id, message) ==
    LET ts1 == IF task_id \in DOMAIN ts THEN ts ELSE Put(ts, task_id, EmptyEntry)
    IN  [ ts1 EXCEPT ![task_id].logs = Append(@, message) ]

\* tasks.add_task_log; timestamps are left out, the order of the list is kept.
add_task_log(ts, task_id, message) ==
    IF task_id \notin DOMAIN ts
    THEN ts
    ELSE [ ts EXCEPT ![task_id].logs = Append(@, message) ]

\* ClearError with the stale error kept: the `else` branch left out.
ClearError_never(entry, status) == entry

\* The `else` branch of update_task_status: drop 'error' unless the status is failed.
ClearError(entry, status) ==
    IF status # "failed" /\ entry.error # ABSENT
    THEN [ entry EXCEPT !.error = ABSENT ]
    ELSE entry

\* update_task_status that logs the change of status only in its `else` branch:
\* a recorded error leaves the 'ERROR:' entry alone.
update_task_status_quiet_error(ts, task_id, status, filename, result_file, error, gcs_uri) ==
    LET e0 == IF task_id \in DOMAIN ts THEN ts[task_id] ELSE EmptyEntry
        e1 == [ e0 EXCEPT !.status = status ]
        e2 == IF Truthy(filename) THEN [ e1 EXCEPT !.filename = filename ] ELSE e1
        e3 == IF Truthy(result_file) THEN [ e2 EXCEPT !.result_file = result_file ] ELSE e2
        e4 == IF Truthy(gcs_uri) THEN [ e3 EXCEPT !.gcs_uri = gcs_uri ] ELSE e3
    IN  IF Truthy(error)
        THEN add_task_log(Put(ts, task_id, [ e4 EXCEPT !.error = error ]),
                          task_id, "ERROR: " \o error)
        ELSE add_task_log(Put(ts, task_id, ClearError(e4, status)),
                          task_id, "Status changed to: " \o status)

\* tasks.update_task_status
update_task_status(ts, task_id, status, filename, result_file, error, gcs_uri) ==
    LET e0 == IF task_id \in DOMAIN ts THEN ts[task_id] ELSE EmptyEntry
        e1 == [ e0 EXCEPT !.status = status ]
        e2 == IF Truthy(filename) THEN [ e1 EXCEPT !.filename = filename ] ELSE e1
        e3 == IF Truthy(result_file) THEN [ e2 EXCEPT !.result_file = result_file ] ELSE e2
        e4 == IF Truthy(gcs_uri) THEN [ e3 EXCEPT !.gcs_uri = gcs_uri ] ELSE e3
        ts5 == IF Truthy(error)
               THEN add_task_log(Put(ts, task_id, [ e4 EXCEPT !.error = error ]),
                                 task_id, "ERROR: " \o error)
               ELSE Put(ts, task_id, ClearError(e4, status))
    IN  add_task_log(ts5, task_id, "Status changed to: " \o status)

\* init_task that updates an entry instead of replacing it.
init_task_merge(ts, task_id, filename) ==
    add_task_log(
        Put(ts, task_id,
            [ (IF task_id \in DOMAIN ts THEN ts[task_id] ELSE EmptyEntry)
                  EXCEPT !.status = "received", !.filename = filename ]),
        task_id, "Task initialized with file: " \o filename)

\* tasks.init_task
init_task(ts, task_id, filename) ==
    add_task_log(
        Put(ts, task_id,
            [ status |-> "received", filename |-> filename, result_file |-> NONE,
              gcs_uri |-> ABSENT, error |-> ABSENT, logs |-> << >> ]),
        task_id, "Task initialized with file: " \o filename)

\* tasks.get_task_status followed by the endpoints' `if not status_info`: an id
\* that is not in the dict gives None, which the endpoints answer with 404.
Found(ts, task_id) == task_id \in DOMAIN ts

\* The empty dict `task_status = {}` the module starts with.
EmptyLedger == [ k \in {} |-> EmptyEntry ]

\* Appends a value assigned to 'status' to the task's history of status writes.
Wrote(w, task_id, statuses) == [ w EXCEPT ![task_id] = @ \o statuses ]

NoCall ==
    [ op |-> NONE, task_id |-> NONE, status |-> NONE, filename |-> NONE,
      result_file |-> NONE, error |-> NONE, gcs_uri |-> NONE, message |-> NONE ]

NoRaise == [ stage |-> NONE, msg |-> NONE ]

NoResp == [ op |-> NONE, task_id |-> NONE, code |-> 0 ]

(* ------------------------------------------------- names built by the code *)

\* main.py: upload_blob_name = f"{task_id}_{file.filename}";
\* gcs_utils.py: gcs_uri = f"gs://{bucket_name}/{destination_blob_name}"
GcsUri(task_id, filename) == "gs://bucket/" \o task_id \o "_" \o filename

\* ReportPath when generate_excel returns an empty path.
ReportPath_empty(task_id) == ""

\* processing.generate_excel: os.path.join(output_dir, f"{task_id}_report.xlsx")
ReportPath(task_id) == "/tmp/pdf2any_results/" \o task_id \o "_report.xlsx"

(* ------------------------------------------- the ledger called on its own *)

\* The id the ledger is called with in LedgerSpec.
LedgerIds == {"t1"}

\* The statuses the program passes to update_task_status with no other argument.
PlainStatuses ==
    { "processing", "processing_ocr", "processing_gemini_extract",
      "processing_reconciliation", "generating_report" }

\* The messages a recorded error is given in LedgerSpec: str(e) may be empty.
LedgerErrors == { "", "boom" }

LedgerFrame ==
    UNCHANGED << pcH, pcW, running, gemini, ocr_ready, invoked, raised, resp, DocVars >>

\* init_task(task_id, filename), also for an id that already exists
CallInitTask(task_id, filename) ==
    /\ ncalls < MaxCalls
    /\ task_status' = init_task(task_status, task_id, filename)
    /\ writes' = Wrote(writes, task_id, << "received" >>)
    /\ lastCall' = [ NoCall EXCEPT !.op = "init_task", !.task_id = task_id,
                                    !.filename = filename ]
    /\ ncalls' = ncalls + 1
    /\ LedgerFrame

\* update_task_status(task_id, status=..., result_file=..., error=..., gcs_uri=...)
CallUpdate(task_id, status, result_file, error, gcs_uri) ==
    /\ ncalls < MaxCalls
    /\ task_status' = update_task_status(task_status, task_id, status, NONE,
                                         result_file, error, gcs_uri)
    /\ writes' = Wrote(writes, task_id, << status >>)
    /\ lastCall' = [ NoCall EXCEPT !.op = "update_task_status", !.task_id = task_id,
                                    !.status = status, !.result_file = result_file,
                                    !.error = error, !.gcs_uri = gcs_uri ]
    /\ ncalls' = ncalls + 1
    /\ LedgerFrame

\* update_task_status(task_id, status=s): workflow_manager.py 33, 42, 60, 78; main.py 76
CallTransition(task_id, status) == CallUpdate(task_id, status, NONE, NONE, NONE)

\* update_task_status(task_id, status="received", gcs_uri=gcs_uri): main.py 70
CallRecordUri(task_id) ==
    CallUpdate(task_id, "received", NONE, NONE, GcsUri(task_id, "B.PDF"))

\* update_task_status(task_id, status="completed", result_file=path): workflow_manager.py 87
CallRecordResult(task_id) ==
    CallUpdate(task_id, "completed", ReportPath(task_id), NONE, NONE)

\* update_task_status(task_id, status="failed", error=str(e)): workflow_manager.py 96, main.py 83
CallRecordError(task_id, error) == CallUpdate(task_id, "failed", NONE, error, NONE)

\* add_task_log(task_id, message)
CallAddLog(task_id, message) ==
    /\ ncalls < MaxCalls
    /\ task_status' = add_task_log(task_status, task_id, message)
    /\ lastCall' = [ NoCall EXCEPT !.op = "add_task_log", !.task_id = task_id,
                                    !.message = message ]
    /\ ncalls' = ncalls + 1
    /\ UNCHANGED writes
    /\ LedgerFrame

LedgerInit ==
    /\ task_status = EmptyLedger
    /\ writes = [ t \in TaskIds |-> << >> ]
    /\ lastCall = NoCall
    /\ ncalls = 0
    /\ pcH = [ t \in TaskIds |-> "idle" ]
    /\ pcW = [ t \in TaskIds |-> "none" ]
    /\ running = NONE
    /\ gemini = TRUE
    /\ ocr_ready = TRUE
    /\ invoked = [ t \in TaskIds |-> << >> ]
    /\ raised = [ t \in TaskIds |-> NoRaise ]
    /\ resp = NoResp
    /\ DocIdle

LedgerNext ==
    \E task_id \in LedgerIds :
        \/ CallInitTask(task_id, "B.PDF")
        \/ \E status \in PlainStatuses : CallTransition(task_id, status)
        \/ CallRecordUri(task_id)
        \/ CallRecordResult(task_id)
        \/ \E error \in LedgerErrors : CallRecordError(task_id, error)
        \/ CallAddLog(task_id, "Starting OCR processing...")

\* The ledger's operations called in any order, as its callers call them.
LedgerSpec == LedgerInit /\ [][LedgerNext]_vars

(* ------------------------------------------------ upload handler (main.py) *)

\* The names uploads come with.
Filenames == { "B.PDF", "c.txt" }

\* str.lower() on the names above
Lower(filename) ==
    CASE filename = "B.PDF" -> "b.pdf"
      [] OTHER -> filename

\* file.filename.lower().endswith(".pdf")
IsPdf(filename) == Lower(filename) \in { "b.pdf" }

\* uuid.uuid4(): an id no earlier upload got; the ids are taken in a fixed order.
FreshId(task_id) ==
    /\ pcH[task_id] = "idle"
    /\ \A i \in 1..NumTasks :
          ("t" \o ToString(i)) = task_id =>
              \A j \in 1..(i - 1) : pcH["t" \o ToString(j)] # "idle"

\* UploadErrors when upload_file_to_gcs lets an exception without a message
\* through as it is.
UploadErrors_bare(filename) == { "" }

\* What upload_file_to_gcs raises: each of its exceptions carries a message.
UploadErrors(filename) ==
    { "Google Cloud Storage client not initialized. Check credentials and configuration.",
      "Failed to upload file '" \o filename \o "' to GCS." }

PipelineFrame == UNCHANGED << lastCall, ncalls, gemini, ocr_ready, DocVars >>

\* The handler refuses a name that does not end in .pdf, before any task exists.
UploadRejected(filename) ==
    /\ running = NONE
    /\ ~IsPdf(filename)
    /\ resp' = [ op |-> "upload", task_id |-> NONE, code |-> 400 ]
    /\ UNCHANGED << task_status, writes, pcH, pcW, running, invoked, raised >>
    /\ PipelineFrame

\* From the start of the handler to `await gcs_utils.upload_file_to_gcs(...)`.
UploadBegin(task_id, filename) ==
    /\ running = NONE
    /\ IsPdf(filename)
    /\ FreshId(task_id)
    /\ task_status' = init_task(task_status, task_id, filename)
    /\ writes' = Wrote(writes, task_id, << "received" >>)
    /\ pcH' = [ pcH EXCEPT ![task_id] = "uploading" ]
    /\ UNCHANGED << pcW, running, invoked, raised, resp >>
    /\ PipelineFrame

\* The status the handler writes after it spawned the workflow.
HandlerLastStatus == "processing"

\* create_task as `await process_pdf(...)`: the handler goes on when the workflow
\* has run to its end.
create_task_awaited(task_id) ==
    [ pc |-> "done", invoked |-> << "ocr", "extract", "reconcile", "render" >> ]

\* create_task as a bare `process_pdf(...)`: the coroutine object is made and
\* never scheduled.
create_task_never_scheduled(task_id) == [ pc |-> "none", invoked |-> << >> ]

\* create_task under an eager task factory: the coroutine runs to its first
\* suspension, inside perform_ocr, before create_task returns to the handler.
create_task_eager(task_id) == [ pc |-> "ocr", invoked |-> << "ocr" >> ]

\* asyncio.create_task(process_pdf(task_id, gcs_uri)): the coroutine is scheduled
\* and has run no line of its body when the handler goes on.
create_task(task_id) == [ pc |-> "spawned", invoked |-> << >> ]

\* The upload returned a URI: the handler records it, spawns process_pdf with
\* asyncio.create_task, writes its last status and returns, without suspending.
UploadStored(task_id) ==
    /\ running = NONE
    /\ pcH[task_id] = "uploading"
    /\ LET uri == GcsUri(task_id, task_status[task_id].filename)
           ts1 == update_task_status(task_status, task_id, "received",
                                     NONE, NONE, NONE, uri)
       IN  task_status' = update_task_status(ts1, task_id, HandlerLastStatus,
                                             NONE, NONE, NONE, NONE)
    /\ writes' = Wrote(writes, task_id, << "received", HandlerLastStatus >>)
    /\ pcW' = [ pcW EXCEPT ![task_id] = create_task(task_id).pc ]
    /\ invoked' = [ invoked EXCEPT ![task_id] = create_task(task_id).invoked ]
    /\ pcH' = [ pcH EXCEPT ![task_id] = "returned" ]
    /\ resp' = [ op |-> "upload", task_id |-> task_id, code |-> 200 ]
    /\ UNCHANGED << running, raised >>
    /\ PipelineFrame

\* The upload raised: the handler's except block.
UploadFailed(task_id) ==
    /\ running = NONE
    /\ pcH[task_id] = "uploading"
    /\ \E msg \in UploadErrors(task_status[task_id].filename) :
          /\ task_status' = update_task_status(task_status, task_id, "failed",
                                               NONE, NONE, msg, NONE)
          /\ raised' = [ raised EXCEPT ![task_id] =
                                           [ stage |-> "upload", msg |-> msg ] ]
    /\ writes' = Wrote(writes, task_id, << "failed" >>)
    /\ pcH' = [ pcH EXCEPT ![task_id] = "raised" ]
    /\ resp' = [ op |-> "upload", task_id |-> task_id, code |-> 500 ]
    /\ UNCHANGED << pcW, running, invoked >>
    /\ PipelineFrame

(* ------------------------------------ process_pdf (workflow_manager.py) *)

\* What perform_ocr raises once it runs: its own wrapped error, or an ImportError or
\* ValueError of a library re-raised as it is, whose str() may be empty.
OcrErrors(uri) ==
    { "OCR processing failed for " \o uri \o " due to PDFPageCountError", "" }

\* What extract_with_gemini raises once the client exists.
ExtractErrors(uri) == { "Gemini extraction failed for " \o uri }

\* What generate_excel raises.
RenderErrors(task_id) == { "Excel generation failed for Task " \o task_id }

\* process_pdf's except block.
WorkflowExcept(ts, task_id, msg) ==
    update_task_status(add_task_log(ts, task_id, "Workflow failed: " \o msg),
                       task_id, "failed", NONE, NONE, msg, NONE)

\* PcAfterExcept when the failure is recorded and the report is generated all the same.
PcAfterExcept_goes_on(stage) == "render"

\* PcAfterExcept when the except block starts the workflow again.
PcAfterExcept_retry(stage) == "spawned"

\* Where process_pdf is after its except block: at its end, whichever stage raised.
PcAfterExcept(stage) == "done"

\* StatusAfterOcr when the workflow writes the first status again.
StatusAfterOcr_reset == "received"

\* The statuses process_pdf writes before OCR, after OCR, after extraction,
\* after reconciliation and after the report.
StatusBeforeOcr == "processing_ocr"
StatusAfterOcr == "processing_gemini_extract"
StatusAfterExtract == "processing_reconciliation"
StatusAfterReconcile == "generating_report"
StatusAfterReport == "completed"

Uri(task_id) == task_status[task_id].gcs_uri

\* A stage raised msg in the state ts: the except block runs and the coroutine ends.
Raise(ts, task_id, stage, msg, statuses) ==
    /\ task_status' = WorkflowExcept(ts, task_id, msg)
    /\ writes' = Wrote(writes, task_id, statuses \o << "failed" >>)
    /\ raised' = [ raised EXCEPT ![task_id] = [ stage |-> stage, msg |-> msg ] ]
    /\ pcW' = [ pcW EXCEPT ![task_id] = PcAfterExcept(stage) ]
    /\ running' = NONE

\* The spawned coroutine runs up to the first suspension of perform_ocr, which
\* raises at once when one of its libraries or the storage client is missing.
WorkflowStart(task_id) ==
    /\ running = NONE
    /\ pcW[task_id] = "spawned"
    /\ invoked' = [ invoked EXCEPT ![task_id] = Append(@, "ocr") ]
    /\ LET ts1 == add_task_log(task_status, task_id,
                               "Starting workflow with GCS URI: " \o Uri(task_id))
           ts2 == update_task_status(ts1, task_id, StatusBeforeOcr,
                                     NONE, NONE, NONE, NONE)
           ts3 == add_task_log(ts2, task_id, "Starting OCR processing...")
       IN  IF ~ocr_ready
           THEN Raise(ts3, task_id, "ocr", "pytesseract library not available.",
                      << StatusBeforeOcr >>)
           ELSE /\ task_status' = ts3
                /\ writes' = Wrote(writes, task_id, << StatusBeforeOcr >>)
                /\ pcW' = [ pcW EXCEPT ![task_id] = "ocr" ]
                /\ UNCHANGED << raised, running >>
    /\ UNCHANGED << pcH, resp >>
    /\ PipelineFrame

\* perform_ocr returned: up to the suspension of extract_with_gemini, which
\* raises at once when the Gemini client is missing.
OcrReturn(task_id) ==
    /\ running = NONE
    /\ pcW[task_id] = "ocr"
    /\ invoked' = [ invoked EXCEPT ![task_id] = Append(@, "extract") ]
    /\ LET ts1 == add_task_log(task_status, task_id,
                               "OCR completed successfully. Extracted <n> characters.")
           ts2 == update_task_status(ts1, task_id, StatusAfterOcr,
                                     NONE, NONE, NONE, NONE)
           ts3 == add_task_log(ts2, task_id, "Starting Gemini extraction...")
       IN  IF ~gemini
           THEN Raise(ts3, task_id, "extract", "GeminiClient not initialized.",
                      << StatusAfterOcr >>)
           ELSE /\ task_status' = ts3
                /\ writes' = Wrote(writes, task_id, << StatusAfterOcr >>)
                /\ pcW' = [ pcW EXCEPT ![task_id] = "extract" ]
                /\ UNCHANGED << raised, running >>
    /\ UNCHANGED << pcH, resp >>
    /\ PipelineFrame

\* perform_ocr raised after it started.
OcrRaise(task_id) ==
    /\ running = NONE
    /\ pcW[task_id] = "ocr"
    /\ \E msg \in OcrErrors(Uri(task_id)) :
          Raise(task_status, task_id, "ocr", msg, << >>)
    /\ UNCHANGED << pcH, invoked, resp >>
    /\ PipelineFrame

\* extract_with_gemini returned a document: up to the call of reconcile_with_gemini,
\* a coroutine that never suspends, so process_pdf keeps the event loop.
ExtractReturn(task_id) ==
    /\ running = NONE
    /\ pcW[task_id] = "extract"
    /\ invoked' = [ invoked EXCEPT ![task_id] = Append(@, "reconcile") ]
    /\ LET ts1 == add_task_log(task_status, task_id,
                               "Gemini extraction completed. Found <counts>.")
           ts2 == update_task_status(ts1, task_id, StatusAfterExtract,
                                     NONE, NONE, NONE, NONE)
       IN  task_status' = add_task_log(ts2, task_id, "Starting Gemini reconciliation...")
    /\ writes' = Wrote(writes, task_id, << StatusAfterExtract >>)
    /\ pcW' = [ pcW EXCEPT ![task_id] = "reconcile" ]
    /\ running' = task_id
    /\ UNCHANGED << pcH, raised, resp >>
    /\ PipelineFrame

\* extract_with_gemini raised after it started.
ExtractRaise(task_id) ==
    /\ running = NONE
    /\ pcW[task_id] = "extract"
    /\ \E msg \in ExtractErrors(Uri(task_id)) :
          Raise(task_status, task_id, "extract", msg, << >>)
    /\ UNCHANGED << pcH, invoked, resp >>
    /\ PipelineFrame

\* ReconcileRaises with the check of the client inverted.
ReconcileRaises_inverted == gemini

\* reconcile_with_gemini raises only on its first two lines, when the client is missing.
ReconcileRaises == ~gemini

\* reconcile_with_gemini ran: it returns its argument, and process_pdf goes on
\* to the suspension of generate_excel.
Reconcile(task_id) ==
    /\ running = task_id
    /\ pcW[task_id] = "reconcile"
    /\ IF ReconcileRaises
       THEN /\ Raise(task_status, task_id, "reconcile",
                     "GeminiClient not initialized.", << >>)
            /\ UNCHANGED invoked
       ELSE /\ LET ts1 == add_task_log(task_status, task_id,
                             "Gemini reconciliation completed. Final data has <counts>.")
                   ts2 == update_task_status(ts1, task_id, StatusAfterReconcile,
                                             NONE, NONE, NONE, NONE)
               IN  task_status' = add_task_log(ts2, task_id, "Generating Excel report...")
            /\ writes' = Wrote(writes, task_id, << StatusAfterReconcile >>)
            /\ invoked' = [ invoked EXCEPT ![task_id] = Append(@, "render") ]
            /\ pcW' = [ pcW EXCEPT ![task_id] = "render" ]
            /\ running' = NONE
            /\ UNCHANGED raised
    /\ UNCHANGED << pcH, resp >>
    /\ PipelineFrame

\* FinishWorkflow without its last log line.
FinishWorkflow_no_success_line(ts, task_id, path) ==
    LET ts1 == add_task_log(ts, task_id, "Excel report generated at: " \o path)
    IN  update_task_status(ts1, task_id, StatusAfterReport, NONE, path, NONE, NONE)

\* The ledger calls of process_pdf after generate_excel returned `path`, none of
\* them behind an await.
FinishWorkflow(ts, task_id, path) ==
    LET ts1 == add_task_log(ts, task_id, "Excel report generated at: " \o path)
        ts2 == update_task_status(ts1, task_id, StatusAfterReport,
                                  NONE, path, NONE, NONE)
    IN  add_task_log(ts2, task_id, "Workflow completed successfully!")

\* generate_excel returned the path of the report: process_pdf runs to its end.
RenderReturn(task_id) ==
    /\ running = NONE
    /\ pcW[task_id] = "render"
    /\ task_status' = FinishWorkflow(task_status, task_id, ReportPath(task_id))
    /\ writes' = Wrote(writes, task_id, << StatusAfterReport >>)
    /\ pcW' = [ pcW EXCEPT ![task_id] = "done" ]
    /\ UNCHANGED << pcH, running, invoked, raised, resp >>
    /\ PipelineFrame

\* generate_excel raised.
RenderRaise(task_id) ==
    /\ running = NONE
    /\ pcW[task_id] = "render"
    /\ \E msg \in RenderErrors(task_id) :
          Raise(task_status, task_id, "render", msg, << >>)
    /\ UNCHANGED << pcH, invoked, resp >>
    /\ PipelineFrame

(* ------------------------------------------------ query endpoints (main.py) *)

ReadLedger_setdefault(ts, task_id) ==
    IF Found(ts, task_id) THEN ts ELSE Put(ts, task_id, EmptyEntry)

\* The ledger after get_task_status(task_id): dict.get inserts nothing, and the
\* endpoints only read the entry they are given.
ReadLedger(ts, task_id) == ts

QueryFrame ==
    /\ UNCHANGED << writes, pcH, pcW, running, invoked, raised >>
    /\ PipelineFrame

\* GET /api/status/{task_id}
GetStatus(task_id) ==
    /\ running = NONE
    /\ resp' = [ op |-> "status", task_id |-> task_id,
                 code |-> IF Found(task_status, task_id) THEN 200 ELSE 404 ]
    /\ task_status' = ReadLedger(task_status, task_id)
    /\ QueryFrame

\* GET /api/logs/{task_id}
GetLogs(task_id) ==
    /\ running = NONE
    /\ resp' = [ op |-> "logs", task_id |-> task_id,
                 code |-> IF Found(task_status, task_id) THEN 200 ELSE 404 ]
    /\ task_status' = ReadLedger(task_status, task_id)
    /\ QueryFrame

DownloadCodes_unchecked(ts, task_id) ==
    IF ~Found(ts, task_id) THEN { 404 } ELSE { 200, 404 }

\* The answers of GET /api/download/{task_id}: 404 for an unknown id, 400 unless the
\* task is completed with a result file, and then the file, or 404 when
\* os.path.exists finds no file at the path.
DownloadCodes(ts, task_id) ==
    IF ~Found(ts, task_id) THEN { 404 }
    ELSE IF ts[task_id].status # "completed"
            \/ ts[task_id].result_file \in { ABSENT, NONE, "" }
         THEN { 400 }
         ELSE { 200, 404 }

Download(task_id) ==
    /\ running = NONE
    /\ \E code \in DownloadCodes(task_status, task_id) :
          resp' = [ op |-> "download", task_id |-> task_id, code |-> code ]
    /\ task_status' = ReadLedger(task_status, task_id)
    /\ QueryFrame

(* ------------------------------------------------------------ the program *)

Init ==
    /\ task_status = EmptyLedger
    /\ writes = [ t \in TaskIds |-> << >> ]
    /\ lastCall = NoCall
    /\ ncalls = 0
    /\ pcH = [ t \in TaskIds |-> "idle" ]
    /\ pcW = [ t \in TaskIds |-> "none" ]
    /\ running = NONE
    /\ gemini \in BOOLEAN
    /\ ocr_ready \in BOOLEAN
    /\ invoked = [ t \in TaskIds |-> << >> ]
    /\ raised = [ t \in TaskIds |-> NoRaise ]
    /\ resp = NoResp
    /\ DocIdle

Next ==
    \/ \E filename \in Filenames : UploadRejected(filename)
    \/ \E task_id \in TaskIds :
          \/ \E filename \in Filenames : UploadBegin(task_id, filename)
          \/ UploadStored(task_id)
          \/ UploadFailed(task_id)
          \/ WorkflowStart(task_id)
          \/ OcrReturn(task_id)
          \/ OcrRaise(task_id)
          \/ ExtractReturn(task_id)
          \/ ExtractRaise(task_id)
          \/ Reconcile(task_id)
          \/ RenderReturn(task_id)
          \/ RenderRaise(task_id)
          \/ GetStatus(task_id)
          \/ GetLogs(task_id)
          \/ Download(task_id)

Spec == Init /\ [][Next]_vars

\* The upload handler and the workflows without the query endpoints, which
\* write nothing (ReadLedger).
PipelineNext ==
    \/ \E filename \in Filenames : UploadRejected(filename)
    \/ \E task_id \in TaskIds :
          \/ \E filename \in Filenames : UploadBegin(task_id, filename)
          \/ UploadStored(task_id)
          \/ UploadFailed(task_id)
          \/ WorkflowStart(task_id)
          \/ OcrReturn(task_id)
          \/ OcrRaise(task_id)
          \/ ExtractReturn(task_id)
          \/ ExtractRaise(task_id)
          \/ Reconcile(task_id)
          \/ RenderReturn(task_id)
          \/ RenderRaise(task_id)

\* The pipeline when every capability call returns or raises in the end: the
\* event loop resumes a coroutine whose awaited call is over, and runs a task
\* that asyncio.create_task scheduled. Nothing is assumed of the uploads.
FairSpec ==
    /\ Init /\ [][PipelineNext]_vars
    /\ \A task_id \in TaskIds :
          WF_vars(\/ WorkflowStart(task_id) \/ OcrReturn(task_id)
                  \/ OcrRaise(task_id) \/ ExtractReturn(task_id)
                  \/ ExtractRaise(task_id) \/ Reconcile(task_id)
                  \/ RenderReturn(task_id) \/ RenderRaise(task_id))

(* -------------------------- one document from the response to the workbook *)

\* 'a: 1', 'b<TAB>2', a line with no separator and a line with no value
tKvLines ==
    << "a", ":", " ", "1", "\n", "b", "\t", "2", "\n", "c", "\n", "d", ":", " " >>

\* Texts perform_ocr returns: none, key-value lines, and the same lines at the
\* start of a text longer than MAX_OCR_LEN.
OcrTexts ==
    { NoText, [ head |-> tKvLines, more |-> 0 ],
      [ head |-> tKvLines, more |-> MAX_OCR_LEN ] }

c1 == PyStr(<< "1" >>)
c2 == PyStr(<< "2" >>)
c3 == PyStr(<< "3" >>)
hA == PyStr(<< "A" >>)
hB == PyStr(<< "B" >>)
kA == << "a" >>
kB == << "b" >>

\* A title of 33 characters.
tLongTitle == [ i \in 1..33 |-> IF i % 4 = 0 THEN " " ELSE "x" ]

\* A table as the schema asks for it.
Table(title, headers, rows) ==
    PyDict(<< << kTableTitle, PyStr(title) >>, << kHeaders, PyList(headers) >>,
              << kRows, PyList(rows) >> >>)

\* Entries of 'tables' a response can hold: well-formed ones (two titles that
\* differ in one character that is not alphanumeric, the name of the first
\* sheet, a long title, no title), malformed ones and one whose two headers
\* are equal.
TableEntries ==
    { Table(<< "A", "-", "B" >>, << hA, hB >>, << PyList(<< c1, c2 >>) >>),
      Table(<< "A", "_", "B" >>, << hA >>, << PyList(<< c3 >>), PyList(<< c1 >>) >>),
      Table(sSummary, << hA >>, << PyList(<< c2 >>) >>),
      Table(tLongTitle, << hA >>, << PyList(<< c1 >>) >>),
      PyDict(<< << kHeaders, PyList(<< hA, hB >>) >>,
                << kRows, PyList(<< PyList(<< c1, c2 >>), PyStr(<< "b", "a", "d" >>),
                                    PyList(<< c3, c1 >>) >>) >> >>),
      Table(<< "C" >>, << hA >>, << PyStr(<< "b", "a", "d" >>) >>),
      Table(<< "D" >>, << hA >>, << >>),
      Table(<< "E" >>, << hA >>, << PyList(<< c1, c2 >>) >>),
      Table(<< "I" >>, << hA, hA >>, << PyList(<< c1, c2 >>) >>),
      PyDict(<< << kTableTitle, PyStr(<< "F" >>) >>, << kHeaders, PyList(<< hA >>) >> >>),
      PyDict(<< << kTableTitle, PyStr(<< "G" >>) >>,
                << kRows, PyList(<< PyList(<< c1 >>) >>) >> >>),
      PyStr(<< "H" >>) }

\* The lists of at most n entries.
RECURSIVE TableLists(_)
TableLists(n) ==
    IF n = 0 THEN { << >> }
    ELSE TableLists(n - 1)
           \cup { Append(l, e) : l \in { m \in TableLists(n - 1) : Len(m) = n - 1 },
                                 e \in TableEntries }

\* A dict of the keys that are given a value: NoKey stands for a missing key.
NoKey == [ kind |-> "missing", items |-> << >>, text |-> << >> ]

Payload(metadata, key_value_pairs, text_sections, tables) ==
    LET all == << << kMetadata, metadata >>, << kKeyValuePairs, key_value_pairs >>,
                  << kTextSections, text_sections >>, << kTables, tables >> >>
    IN  PyDict(SelectSeq(all, LAMBDA item : item[2] # NoKey))

\* Responses of the extraction call that are dicts: every shape of the three
\* maps with little or nothing in 'tables', and the lists of tables with
\* little in the maps.
DictResponses ==
    { Payload(m, kv, ts, tb) :
        m \in { NoKey, PyDict(<< >>), PyDict(<< << kA, c1 >> >>), PyStr(<< "x" >>) },
        kv \in { NoKey, PyDict(<< >>), PyDict(<< << kB, c2 >> >>),
                 PyDict(<< << sMeta \o kA, c3 >> >>),
                 PyDict(<< << kRawResponse, c1 >>, << kB, c2 >> >>) },
        ts \in { NoKey, PyDict(<< >>), PyDict(<< << kA, c1 >> >>) },
        tb \in { NoKey, PyNum(<< "7" >>), PyList(<< >>) } }
    \cup
    { Payload(m, NoKey, NoKey, PyList(l)) :
        m \in { NoKey, PyDict(<< << kA, c1 >> >>) }, l \in TableLists(MaxTables) }

\* Responses that are not dicts: free text, texts that are JSON, None, a list
\* and a number.
OtherResponses ==
    { PyStr(tKvLines), PyNone, PyList(<< >>), PyNum(<< "7" >>) }
    \cup { PyStr(t) : t \in JsonTexts }

DocFrame ==
    UNCHANGED << task_status, writes, lastCall, ncalls, pcH, pcW, running, gemini,
                 ocr_ready, invoked, raised, resp, response_data, ocr_text >>

\* extract_with_gemini from the answer of the call to its return or its raise.
DocExtract ==
    /\ pcD = "received"
    /\ LET r == extract_with_gemini(response_data)
       IN  IF gemini /\ ~r.raises
           THEN pcD' = "extracted" /\ extracted_json' = r.doc
           ELSE pcD' = "raised" /\ UNCHANGED extracted_json
    /\ UNCHANGED << final_json, workbook >>
    /\ DocFrame

\* reconcile_with_gemini(extracted_json, ocr_text)
DocReconcile ==
    /\ pcD = "extracted"
    /\ final_json' = reconcile_with_gemini(extracted_json, ocr_text)
    /\ pcD' = "reconciled"
    /\ UNCHANGED << extracted_json, workbook >>
    /\ DocFrame

\* generate_excel(final_json, task_id): the document is a dict, the workbook is
\* written.
DocRender ==
    /\ pcD = "reconciled"
    /\ IsDict(final_json)
    /\ workbook' = write_excel_sheets(final_json)
    /\ pcD' = "rendered"
    /\ UNCHANGED << extracted_json, final_json >>
    /\ DocFrame

DocInit ==
    /\ task_status = EmptyLedger
    /\ writes = [ t \in TaskIds |-> << >> ]
    /\ lastCall = NoCall
    /\ ncalls = 0
    /\ pcH = [ t \in TaskIds |-> "idle" ]
    /\ pcW = [ t \in TaskIds |-> "none" ]
    /\ running = NONE
    /\ gemini \in BOOLEAN
    /\ ocr_ready = TRUE
    /\ invoked = [ t \in TaskIds |-> << >> ]
    /\ raised = [ t \in TaskIds |-> NoRaise ]
    /\ resp = NoResp
    /\ pcD = "received"
    /\ response_data \in DictResponses \cup OtherResponses
    /\ ocr_text \in OcrTexts
    /\ extracted_json = PyNone
    /\ final_json = PyNone
    /\ workbook = NoWorkbook

DocNext == DocExtract \/ DocReconcile \/ DocRender

\* The document path of one task: the stages of processing.py applied to every
\* response and OCR text above.
DocSpec == DocInit /\ [][DocNext]_vars

(* ------------------------------------------------------------- properties *)

\* The statuses of the documented state machine, in their order.
StatusOrder ==
    << "received", "processing_ocr", "processing_gemini_extract",
       "processing_reconciliation", "generating_report", "completed" >>

RECURSIVE Distinct(_)
\* A sequence with each run of equal neighbours reduced to one element.
Distinct(seq) ==
    IF Len(seq) <= 1 THEN seq
    ELSE IF seq[1] = seq[2] THEN Distinct(Tail(seq))
         ELSE << seq[1] >> \o Distinct(Tail(seq))

Ordered(status) == \E i \in 1..Len(StatusOrder) : StatusOrder[i] = status

Rank(status) == CHOOSE i \in 1..Len(StatusOrder) : StatusOrder[i] = status

Contains(seq, x) == \E i \in 1..Len(seq) : seq[i] = x

StatusEnum == { StatusOrder[i] : i \in 1..Len(StatusOrder) } \cup { "failed" }

Known == DOMAIN task_status

\* A result_file that is neither missing nor None.
HasResult(entry) == entry.result_file \notin { ABSENT, NONE }

\* C1: the statuses written for a task never go backward in the order received <
\* processing_ocr < processing_gemini_extract < processing_reconciliation <
\* generating_report < completed: of any two writes of statuses of that order, the
\* later write is not earlier in the order (a write of failed is not compared).
C1_NeverBackward ==
    \A t \in TaskIds :
        \A i, j \in 1..Len(writes[t]) :
            (i < j /\ Ordered(writes[t][i]) /\ Ordered(writes[t][j]))
                => Rank(writes[t][i]) <= Rank(writes[t][j])

\* A task that the handler and the workflow took from received to completed.
C1_Witness ==
    \E t \in Known :
        /\ task_status[t].status = "completed"
        /\ Contains(writes[t], "received")
        /\ Contains(writes[t], "processing_reconciliation")

\* C2: every task's status is one of received, processing_ocr,
\* processing_gemini_extract, processing_reconciliation, generating_report,
\* completed, failed.
C2_StatusInEnum == \A t \in Known : task_status[t].status \in StatusEnum

\* C3: a task whose four stages all succeed takes exactly the statuses received,
\* processing_ocr, processing_gemini_extract, processing_reconciliation,
\* generating_report, completed, in this order and with no other value in between.
C3_SuccessSequence ==
    \A t \in Known :
        task_status[t].status = "completed" => Distinct(writes[t]) = StatusOrder

\* C4: failed is terminal: once a task's status is failed, no step changes its
\* status or its error, and the task stays in the ledger.
C4_FailedTerminal ==
    [][ \A t \in Known :
            task_status[t].status = "failed"
                => /\ t \in DOMAIN task_status'
                   /\ task_status'[t].status = "failed"
                   /\ task_status'[t].error = task_status[t].error ]_vars

\* A failed task that was asked for its result after it failed.
C4_Witness ==
    \E t \in Known :
        /\ task_status[t].status = "failed"
        /\ task_status[t].error # ABSENT
        /\ resp = [ op |-> "download", task_id |-> t, code |-> 400 ]

Stages == { "ocr", "extract", "reconcile", "render" }

\* C5: when a stage raises, the workflow calls no later stage, the task's status
\* is failed and its error is the message of the exception.
C5_StageRaise ==
    \A t \in Known :
        raised[t].stage \in Stages
            => /\ invoked[t][Len(invoked[t])] = raised[t].stage
               /\ task_status[t].status = "failed"
               /\ task_status[t].error = raised[t].msg

\* The steps of the workflow of one task.
WorkflowStep(t) ==
    \/ WorkflowStart(t) \/ OcrReturn(t) \/ OcrRaise(t) \/ ExtractReturn(t)
    \/ ExtractRaise(t) \/ Reconcile(t) \/ RenderReturn(t) \/ RenderRaise(t)

\* The next status of the task can be failed: its workflow has a step that writes it.
CanFailNext(t) ==
    ENABLED (WorkflowStep(t) /\ task_status'[t].status = "failed")

\* The task's workflow is the next writer of its status: no other coroutine
\* holds the event loop.
Schedulable(t) == running \in { NONE, t }

\* C6 as stated: from each of processing_ocr, processing_gemini_extract,
\* processing_reconciliation and generating_report the task's next status can be
\* failed.
C6_FailedFromEachMiddle ==
    \A t \in Known :
        (Schedulable(t) /\ task_status[t].status \in
            { "processing_ocr", "processing_gemini_extract",
              "processing_reconciliation", "generating_report" })
            => CanFailNext(t)

\* C6 as amended: from processing_ocr, processing_gemini_extract and
\* generating_report the task's next status can be failed; from
\* processing_reconciliation it cannot, and the status written after
\* processing_reconciliation is always generating_report.
C6_FailedFromThreeMiddle ==
    \A t \in Known :
        /\ (Schedulable(t) /\ task_status[t].status \in
                { "processing_ocr", "processing_gemini_extract", "generating_report" })
               => CanFailNext(t)
        /\ task_status[t].status = "processing_reconciliation" => ~CanFailNext(t)
        /\ \A i \in 1..(Len(writes[t]) - 1) :
               writes[t][i] = "processing_reconciliation"
                   => writes[t][i + 1] = "generating_report"

\* A task in processing_reconciliation, and another that failed from
\* generating_report.
C6_Witness ==
    \E t, u \in Known :
        /\ task_status[t].status = "processing_reconciliation"
        /\ raised[u].stage = "render"
        /\ task_status[u].status = "failed"

\* C7: when extraction raises, the task's statuses are exactly received,
\* processing_ocr, processing_gemini_extract, failed; its error is set, its log
\* has an entry that mentions the failure, the report is never generated and a
\* download of the task is answered with the precondition error (400).
C7_ExtractionRaises ==
    \A t \in Known :
        raised[t].stage = "extract"
            => /\ Distinct(writes[t]) =
                     << "received", "processing_ocr", "processing_gemini_extract",
                        "failed" >>
               /\ task_status[t].error # ABSENT
               /\ Contains(task_status[t].logs, "Workflow failed: " \o raised[t].msg)
               /\ ~Contains(invoked[t], "render")
               /\ (resp.op = "download" /\ resp.task_id = t) => resp.code = 400

\* C8: after update_task_status(id, status='failed', error=m) the task is failed
\* and its error is m, for every message m, the empty one included.
C8_RecordErrorComplete ==
    (lastCall.op = "update_task_status" /\ lastCall.status = "failed"
        /\ lastCall.error # NONE)
        => /\ task_status[lastCall.task_id].status = "failed"
           /\ task_status[lastCall.task_id].error = lastCall.error

\* C9: a task has an error only while its status is failed.
C9_ErrorOnlyWhileFailed ==
    \A t \in Known : task_status[t].error # ABSENT => task_status[t].status = "failed"

\* A task whose recorded error was removed by a later write of another status.
C9_Witness ==
    \E t \in Known :
        /\ Contains(task_status[t].logs, "ERROR: boom")
        /\ task_status[t].status \in PlainStatuses
        /\ task_status[t].error = ABSENT
        /\ lastCall.op = "update_task_status"

\* C10: a task has a result_file exactly when its status is completed, and a
\* result_file that is set never changes.
C10_ResultOnlyOnSuccess ==
    /\ [](\A t \in Known :
            HasResult(task_status[t]) <=> task_status[t].status = "completed")
    /\ [][ \A t \in Known :
              HasResult(task_status[t])
                  => task_status'[t].result_file = task_status[t].result_file ]_vars

\* A completed task with the path of its report, while another task is under way.
C10_Witness ==
    \E t, u \in Known :
        /\ task_status[t].status = "completed"
        /\ task_status[t].result_file = ReportPath(t)
        /\ task_status[u].status = "processing_ocr"

\* The query endpoints of one task id.
Query(t) == GetStatus(t) \/ GetLogs(t) \/ Download(t)

\* C11: a download of a known task answers with the file (200) only when the
\* task's status is completed and its result_file is set; in every other state
\* of the task (received, a processing status, failed) the answer is the
\* precondition error (400).
C11_DownloadGuard ==
    [][ \A t \in Known :
            Download(t)
                => LET ready == /\ task_status[t].status = "completed"
                                /\ HasResult(task_status[t])
                   IN  /\ resp'.code = 200 => ready
                       /\ ~ready => resp'.code = 400 ]_vars

\* A download that was answered with the file of a completed task, while the
\* other task has failed.
C11_Witness ==
    \E t, u \in Known :
        /\ resp = [ op |-> "download", task_id |-> t, code |-> 200 ]
        /\ task_status[t].result_file = ReportPath(t)
        /\ task_status[u].status = "failed"

\* C12: a status, log or download query for an id that is not in the ledger is
\* answered with not-found (404), and no query, for a known or an unknown id,
\* changes the ledger.
C12_QueriesReadOnly ==
    [][ \A t \in TaskIds :
            Query(t)
                => /\ task_status' = task_status
                   /\ ~Found(task_status, t) => resp'.code = 404 ]_vars

\* The logs of an id that is not in the ledger were asked for while another task
\* is in the ledger, and the id is still not in the ledger.
C12_Witness ==
    \E t \in Known, u \in TaskIds \ Known :
        resp = [ op |-> "logs", task_id |-> u, code |-> 404 ]

\* The log of a task id, empty for an id that is not in the ledger.
LogOf(ts, t) == IF Found(ts, t) THEN ts[t].logs ELSE << >>

IsPrefix(a, b) == Len(a) <= Len(b) /\ SubSeq(b, 1, Len(a)) = a

\* C13: a task's log is append-only across every ledger operation (init_task,
\* update_task_status, add_task_log, init_task on an existing id included): the
\* log before the operation is a prefix of the log after it.
C13_LogAppendOnly ==
    [][ \A t \in LedgerIds :
            IsPrefix(LogOf(task_status, t), LogOf(task_status', t)) ]_vars

\* C14: every update_task_status call appends exactly one 'Status changed to:
\* <status>' entry at the end of the task's log, preceded by one 'ERROR:
\* <message>' entry when it is given a (non-empty) error message, and every
\* add_task_log call on a known id appends its message at the end: the order of
\* the log is the order of the calls.
C14_StatusWritesLogged ==
    [][ \A t \in LedgerIds :
            LET before == LogOf(task_status, t)
                after  == LogOf(task_status', t)
                c      == lastCall'
            IN  /\ (c.op = "update_task_status" /\ c.task_id = t)
                       => after = before
                                    \o (IF Truthy(c.error)
                                        THEN << "ERROR: " \o c.error >> ELSE << >>)
                                    \o << "Status changed to: " \o c.status >>
                /\ (c.op = "add_task_log" /\ c.task_id = t /\ Found(task_status, t))
                       => after = Append(before, c.message) ]_vars

\* A log that ends with an explicit entry, then the two entries of a recorded
\* error.
C14_Witness ==
    \E t \in Known :
        LET logs == task_status[t].logs
            n    == Len(logs)
        IN  /\ n >= 4
            /\ logs[n - 2] = "Starting OCR processing..."
            /\ logs[n - 1] = "ERROR: boom"
            /\ logs[n] = "Status changed to: failed"

\* The entry init_task leaves, all of it but the log.
InitFields(entry) ==
    /\ entry.status = "received"
    /\ entry.result_file = NONE
    /\ entry.error = ABSENT

\* C15 as stated: right after init_task(id, filename) the task's status is
\* received, its log is empty, its result_file is unset and it has no error.
C15_AfterInitEmptyLog ==
    lastCall.op = "init_task"
        => /\ InitFields(task_status[lastCall.task_id])
           /\ task_status[lastCall.task_id].logs = << >>

\* C15 as amended: right after init_task(id, filename) the task's status is
\* received, its result_file is unset, it has no error, and its log holds the
\* one entry 'Task initialized with file: <filename>'.
C15_AfterInit ==
    lastCall.op = "init_task"
        => /\ InitFields(task_status[lastCall.task_id])
           /\ task_status[lastCall.task_id].logs =
                  << "Task initialized with file: " \o lastCall.filename >>

\* init_task was called on an id that had failed with a recorded error.
C15_Witness ==
    /\ lastCall.op = "init_task"
    /\ Contains(writes[lastCall.task_id], "failed")
    /\ ncalls >= 3

\* C16: in every state a poller can read (no coroutine holds the event loop), a
\* task whose status is completed has the entry 'Workflow completed
\* successfully!' in its log and a result_file: the write of completed and the
\* success line are made in one step.
C16_CompletedHasSuccessLine ==
    \A t \in Known :
        (running = NONE /\ task_status[t].status = "completed")
            => /\ Contains(task_status[t].logs, "Workflow completed successfully!")
               /\ HasResult(task_status[t])
               /\ pcW[t] = "done"

\* A poller was given the log of a completed task.
C16_Witness ==
    \E t \in Known :
        /\ task_status[t].status = "completed"
        /\ resp = [ op |-> "logs", task_id |-> t, code |-> 200 ]

\* C17: the upload call returns the task id when the workflow has only been
\* scheduled: no stage has been invoked yet. No step of the workflow changes the
\* response or the state of the handler, and an upload is answered with an error
\* (500) only for a failure of the upload itself.
C17_FireAndForget ==
    /\ []((resp.op = "upload" /\ resp.code = 500)
            => raised[resp.task_id].stage = "upload")
    /\ [][ \A t \in TaskIds :
              /\ UploadStored(t)
                    => /\ resp' = [ op |-> "upload", task_id |-> t, code |-> 200 ]
                       /\ pcW'[t] = "spawned"
                       /\ invoked'[t] = << >>
              /\ WorkflowStep(t) => (resp' = resp /\ pcH' = pcH) ]_vars

\* The last response is the 200 of an upload whose workflow has failed since.
C17_Witness ==
    \E t \in Known :
        /\ resp = [ op |-> "upload", task_id |-> t, code |-> 200 ]
        /\ raised[t].stage \in Stages
        /\ task_status[t].status = "failed"

\* C18: the stages invoked for a task are a prefix of OCR, extraction,
\* reconciliation, report generation (each at most once); the call in flight is
\* the last one invoked, so every earlier one has returned; and after a stage
\* raised no other stage is invoked.
C18_StagesInOrder ==
    \A t \in TaskIds :
        /\ IsPrefix(invoked[t], << "ocr", "extract", "reconcile", "render" >>)
        /\ pcW[t] \in Stages => invoked[t][Len(invoked[t])] = pcW[t]
        /\ raised[t].stage \in Stages
              => (invoked[t][Len(invoked[t])] = raised[t].stage /\ pcW[t] = "done")

\* A task with all four stages invoked, and a task that stopped at extraction.
C18_Witness ==
    \E t, u \in TaskIds :
        /\ invoked[t] = << "ocr", "extract", "reconcile", "render" >>
        /\ pcW[t] = "done"
        /\ invoked[u] = << "ocr", "extract" >>
        /\ raised[u].stage = "extract"

\* The steps made for one task: its upload handler and its workflow.
TaskStep(a) ==
    \/ \E filename \in Filenames : UploadBegin(a, filename)
    \/ UploadStored(a) \/ UploadFailed(a) \/ WorkflowStep(a)

\* C19: a step made for task A leaves the ledger entry and the workflow of every
\* other task B as they were, and whatever has happened to A, a workflow of B
\* that waits for a capability call or for its start can take its next step.
C19_Isolation ==
    /\ [](\A b \in TaskIds :
            (running = NONE /\ pcW[b] \in { "spawned", "ocr", "extract", "render" })
                => ENABLED WorkflowStep(b))
    /\ [][ \A a \in TaskIds :
              TaskStep(a)
                  => \A b \in Known \ {a} :
                        /\ b \in DOMAIN task_status'
                        /\ task_status'[b] = task_status[b]
                        /\ pcW'[b] = pcW[b] ]_vars

\* A failed at its first stage and B, started with it, is completed.
C19_Witness ==
    \E a, b \in Known :
        /\ raised[a].stage = "ocr"
        /\ task_status[a].status = "failed"
        /\ task_status[b].status = "completed"

\* The status process_pdf wrote before the capability call it waits for.
StatusInFlight(pc) ==
    CASE pc = "ocr" -> "processing_ocr"
      [] pc = "extract" -> "processing_gemini_extract"
      [] pc = "reconcile" -> "processing_reconciliation"
      [] pc = "render" -> "generating_report"

\* C20: when every capability call returns or raises in the end, the workflow of
\* every accepted upload ends with the task completed or failed; and while a
\* capability call of a task is in flight the task has the processing status
\* written before the call, which only the return or the exception of that call
\* changes: no other step moves the task on.
C20_Termination ==
    /\ \A t \in TaskIds :
          (pcH[t] = "returned")
              ~> (pcW[t] = "done" /\ task_status[t].status \in { "completed", "failed" })
    /\ [](\A t \in TaskIds :
            pcW[t] \in Stages => task_status[t].status = StatusInFlight(pcW[t]))
    /\ [][ \A t \in TaskIds :
              (pcW[t] \in Stages /\ ~WorkflowStep(t))
                  => /\ task_status'[t].status = task_status[t].status
                     /\ pcW'[t] = pcW[t] ]_vars

\* One workflow has ended in failed and the other in completed.
C20_Witness ==
    \E t, u \in Known :
        /\ pcW[t] = "done" /\ task_status[t].status = "failed"
        /\ raised[t].stage = "render"
        /\ pcW[u] = "done" /\ task_status[u].status = "completed"

\* The document has left extract_with_gemini.
Extracted == pcD \in { "extracted", "reconciled", "rendered" }

\* All four fields of a document are present.
FourFields(d) ==
    /\ IsDict(d)
    /\ Has(d, kMetadata) /\ Has(d, kKeyValuePairs)
    /\ Has(d, kTextSections) /\ Has(d, kTables)

\* C21: normalization is total: with the extraction client present, every
\* response, malformed ones included (free text, a JSON string that decodes to a
\* list, a number or null, a dict with no tables or with tables that is not a
\* list, tables with no rows) gives a document with the four fields metadata,
\* key_value_pairs, text_sections and tables, and extract_with_gemini never
\* raises.
C21_NormalizeTotal ==
    gemini => /\ pcD # "raised"
              /\ Extracted => FourFields(extracted_json)

Whitespace == { " ", "\t", "\n" }

RECURSIVE LStrip(_)
LStrip(t) == IF t # << >> /\ t[1] \in Whitespace THEN LStrip(Tail(t)) ELSE t

RECURSIVE RStrip(_)
RStrip(t) ==
    IF t # << >> /\ t[Len(t)] \in Whitespace THEN RStrip(SubSeq(t, 1, Len(t) - 1)) ELSE t

\* str.strip()
Strip(t) == RStrip(LStrip(t))

\* The place of the first character c in t, 0 when there is none.
Find(t, c) ==
    IF \E i \in 1..Len(t) : t[i] = c
    THEN CHOOSE i \in 1..Len(t) : t[i] = c /\ \A j \in 1..(i - 1) : t[j] # c
    ELSE 0

RECURSIVE Lines(_)
\* The lines of a text.
Lines(t) ==
    IF Find(t, "\n") = 0 THEN << t >>
    ELSE << SubSeq(t, 1, Find(t, "\n") - 1) >>
           \o Lines(SubSeq(t, Find(t, "\n") + 1, Len(t)))

\* The pair a line of the form 'key: value' or 'key<TAB>value' gives, as a
\* sequence of no or one item.
LinePair(line) ==
    LET at == IF Find(line, ":") # 0 THEN Find(line, ":") ELSE Find(line, "\t")
        key == Strip(SubSeq(line, 1, at - 1))
        value == Strip(SubSeq(line, at + 1, Len(line)))
    IN  IF at # 0 /\ key # << >> /\ value # << >>
        THEN << << key, PyStr(value) >> >> ELSE << >>

RECURSIVE LinePairsOf(_)
LinePairsOf(lines) ==
    IF lines = << >> THEN << >> ELSE LinePair(lines[1]) \o LinePairsOf(Tail(lines))

\* One pair per line of the text that has the form 'key: value' or
\* 'key<TAB>value' with both sides non-empty after trimming.
LinePairs(t) == LinePairsOf(Lines(Strip(t)))

\* The response is free text: a str that is not JSON.
FreeText(v) == IsStr(v) /\ v.text \notin JsonTexts

\* C22: when the response is not a mapping but free text, the document has empty
\* tables, metadata and text_sections, and its key_value_pairs hold one pair per
\* line of the text of the form 'key: value' or 'key<TAB>value'.
C22_FreeTextPairs ==
    (Extracted /\ FreeText(response_data))
        => /\ Get(extracted_json, kTables) = PyList(<< >>)
           /\ Get(extracted_json, kMetadata) = PyDict(<< >>)
           /\ Get(extracted_json, kTextSections) = PyDict(<< >>)
           /\ Get(extracted_json, kKeyValuePairs) = PyDict(LinePairs(response_data.text))

\* The sheets of a name in the workbook.
SheetsNamed(name) ==
    { i \in 1..Len(workbook.sheets) : workbook.sheets[i].name = name }

\* C23: end to end, when OCR returns text made of 'key: value' lines and the
\* extraction returns a value that is not a mapping, the document is rendered
\* (the task completes) and the workbook has a Summary sheet with one row per
\* key-value line of the text, under its header row, and no Info sheet.
C23_EndToEndFreeText ==
    (gemini /\ ~IsDict(response_data) /\ ocr_text.head = tKvLines /\ pcD # "received")
        => /\ pcD # "raised"
           /\ pcD = "rendered"
                => /\ \E i \in SheetsNamed(sSummary) :
                         Len(workbook.sheets[i].cells) = 1 + Len(LinePairs(ocr_text.head))
                   /\ SheetsNamed(sInfo) = {}

\* C24: every document extract_with_gemini returns has a tables that is a list:
\* the response's own list, or the empty list when the response has no tables
\* or one that is not a list; a missing metadata, key_value_pairs or
\* text_sections is the empty dict, and one that is present is kept.
C24_TablesAlwaysList ==
    Extracted
        => /\ FourFields(extracted_json)
           /\ IsList(Get(extracted_json, kTables))
           /\ IsDict(response_data)
                => /\ Get(extracted_json, kTables) =
                         (IF IsList(Get(response_data, kTables))
                          THEN Get(response_data, kTables) ELSE PyList(<< >>))
                   /\ \A key \in { kMetadata, kKeyValuePairs, kTextSections } :
                         Get(extracted_json, key) =
                            (IF Has(response_data, key)
                             THEN Get(response_data, key) ELSE PyDict(<< >>))

\* A response whose tables is a number and whose metadata is missing was made a
\* document.
C24_Witness ==
    /\ Extracted
    /\ IsDict(response_data)
    /\ Get(response_data, kTables) = PyNum(<< "7" >>)
    /\ ~Has(response_data, kMetadata)

\* C25: reconcile_with_gemini(doc, text) returns doc, equal in every field, for
\* every document and every text, texts longer than the truncation limit
\* included, and leaves its argument as extract_with_gemini returned it.
C25_ReconcileIdentity ==
    pcD \in { "reconciled", "rendered" }
        => /\ final_json = extracted_json
           /\ extracted_json = extract_with_gemini(response_data).doc

\* A document with tables was reconciled against a text that is cut for the
\* prompt.
C25_Witness ==
    /\ pcD = "reconciled"
    /\ TextLen(ocr_text) > MAX_OCR_LEN
    /\ PromptLen(ocr_text) = MAX_OCR_LEN + 26
    /\ Len(Get(final_json, kTables).items) = MaxTables

\* The document that was rendered has nothing in its four fields.
EmptyDocument(d) ==
    /\ Get(d, kMetadata) = PyDict(<< >>)
    /\ Get(d, kKeyValuePairs) = PyDict(<< >>)
    /\ Get(d, kTextSections) = PyDict(<< >>)
    /\ Get(d, kTables) = PyList(<< >>)

\* C26: every render writes at least one sheet, and a document with empty
\* metadata, key_value_pairs, text_sections and tables is rendered to exactly
\* one sheet, the Info sheet.
C26_NeverSheetless ==
    pcD = "rendered"
        => /\ Len(workbook.sheets) >= 1
           /\ EmptyDocument(final_json)
                => /\ Len(workbook.sheets) = 1
                   /\ workbook.sheets[1].name = sInfo

\* An empty document was rendered to the Info sheet with its one row.
C26_Witness ==
    /\ pcD = "rendered"
    /\ EmptyDocument(final_json)
    /\ workbook.sheets =
          << [ name |-> sInfo, cells |-> << << PyStr(sStatus) >>, << PyStr(sNoData) >> >> ] >>

\* C27: the frames render writes go to sheets of distinct names, also when two
\* tables have the same name after the replacement and the cut or a table has
\* the name of the Summary or the Text Sections sheet: every frame has a sheet
\* of its own, which holds the cells of that frame.
C27_DistinctSheetNames ==
    pcD = "rendered"
        => /\ \A i, j \in 1..Len(workbook.written) :
                 i # j => workbook.written[i].name # workbook.written[j].name
           /\ \A i \in 1..Len(workbook.written) :
                 \E k \in 1..Len(workbook.sheets) :
                     workbook.sheets[k].cells =
                        << workbook.written[i].header >> \o workbook.written[i].rows

\* The items of a dict but those of the reserved key raw_response.
RECURSIVE NotReserved(_)
NotReserved(items) ==
    IF items = << >> THEN << >>
    ELSE (IF items[1][1] = kRawResponse THEN << >> ELSE << items[1] >>)
           \o NotReserved(Tail(items))

\* The Field cells the Summary sheet is to have: 'meta_<key>' for each entry of
\* metadata, then the key of each entry of key_value_pairs.
SummaryFields(d) ==
    LET meta == NotReserved(Get(d, kMetadata).items)
        kv == NotReserved(Get(d, kKeyValuePairs).items)
    IN  [ i \in 1..Len(meta) |-> PyStr(sMeta \o meta[i][1]) ]
          \o [ i \in 1..Len(kv) |-> PyStr(kv[i][1]) ]

\* The frames written as the Summary sheet.
SummaryFrames ==
    { i \in 1..Len(workbook.written) :
        workbook.written[i].name = sSummary /\ workbook.written[i].table = 0 }

\* C28: the Summary sheet has one row per entry of metadata, with Field
\* 'meta_<key>', then one row per entry of key_value_pairs, the entries of the
\* key raw_response left out: as many rows as the two maps have entries that
\* are not reserved; and there is no Summary sheet when there are none.
C28_SummaryRows ==
    (pcD = "rendered" /\ IsDict(Get(final_json, kMetadata))
        /\ IsDict(Get(final_json, kKeyValuePairs)))
        => IF SummaryFields(final_json) = << >>
           THEN SummaryFrames = {}
           ELSE \E i \in SummaryFrames :
                   LET rows == workbook.written[i].rows
                   IN  [ r \in 1..Len(rows) |-> rows[r][1] ] = SummaryFields(final_json)

RECURSIVE SequenceRows(_)
\* The rows of a table that are sequences, in their order.
SequenceRows(rows) ==
    IF rows = << >> THEN << >>
    ELSE (IF rows[1].kind = "list" THEN << rows[1].items >> ELSE << >>)
           \o SequenceRows(Tail(rows))

\* The frames written for the entry of 'tables' at a place.
TableFrames(index) ==
    { i \in 1..Len(workbook.written) : workbook.written[i].table = index }

\* The entry has a headers sequence and a rows sequence.
HasHeadersAndRows(t) ==
    t.kind = "dict" /\ Get(t, kHeaders).kind = "list" /\ Get(t, kRows).kind = "list"

C30_SheetNames ==
    pcD = "rendered"
        => \A i \in 1..Len(workbook.written) :
              LET w == workbook.written[i]
                  t == Get(final_json, kTables).items[w.table]
                  title == IF Has(t, kTableTitle) THEN Get(t, kTableTitle).text
                           ELSE sTable \o Digits(w.table)
              IN  w.table # 0
                    => /\ Len(w.name) <= 31
                       /\ \A c \in 1..Len(w.name) : w.name[c] \in Alnum \cup { "_" }
                       /\ Len(w.name) = (IF Len(title) > 31 THEN 31 ELSE Len(title))
                       /\ \A c \in 1..Len(w.name) :
                             w.name[c] = (IF title[c] \in Alnum THEN title[c] ELSE "_")

\* A table with a title of 33 characters was written to a sheet with a name of
\* 31, next to a table with no title, written as Table_2.
C30_Witness ==
    /\ pcD = "rendered"
    /\ \E i, j \in 1..Len(workbook.written) :
          /\ workbook.written[i].table = 1
          /\ Len(workbook.written[i].name) = 31
          /\ \E c \in 1..31 : workbook.written[i].name[c] = "_"
          /\ workbook.written[j].name = << "T", "a", "b", "l", "e", "_", "2" >>

(* ------------------------------------------------ handler write and workflow *)

\* C31: the handler's last status write ('processing') is applied before the
\* first ledger write of the workflow it spawned: a spawned workflow always finds
\* the handler's write made, while the status is still the handler's the workflow
\* has run no line, and in the order of a task's status writes nothing but the
\* handler's own 'received' stands before 'processing', so it never replaces
\* processing_ocr or a later status.
C31_HandlerWriteFirst ==
    \A t \in TaskIds :
        /\ pcW[t] # "none" => Contains(writes[t], HandlerLastStatus)
        /\ (t \in DOMAIN task_status /\ task_status[t].status = HandlerLastStatus)
               => pcW[t] = "spawned"
        /\ \A i \in 1..Len(writes[t]) :
               writes[t][i] = HandlerLastStatus
                   => \A j \in 1..(i - 1) : writes[t][j] = "received"

\* A workflow that wrote every one of its statuses after the handler's write.
C31_Witness ==
    \E t \in TaskIds :
        /\ pcW[t] = "done"
        /\ task_status[t].status = StatusAfterReport
        /\ writes[t] = << "received", "received", HandlerLastStatus, StatusBeforeOcr,
                          StatusAfterOcr, StatusAfterExtract, StatusAfterReconcile,
                          StatusAfterReport >>

(* ------------------------------------------------- the log names the status *)

\* The log entry update_task_status writes for a status.
StatusLine(status) == "Status changed to: " \o status

IsStatusLine(message) ==
    \E status \in StatusEnum \cup { HandlerLastStatus } : message = StatusLine(status)

\* The last 'Status changed to:' entry of a log that has one.
LastStatusLine(logs) ==
    LET at == { i \in 1..Len(logs) : IsStatusLine(logs[i]) }
    IN  logs[CHOOSE i \in at : \A j \in at : j <= i]

\* C32: in every state between two steps of the event loop, which are the states
\* a poller can read, a task whose log has a 'Status changed to:' entry has the
\* status that the last such entry names.
C32_LastStatusLineIsStatus ==
    \A t \in Known :
        LET logs == task_status[t].logs
        IN  (\E i \in 1..Len(logs) : IsStatusLine(logs[i]))
                => LastStatusLine(logs) = StatusLine(task_status[t].status)

\* A failed task: entries of the workflow and the 'ERROR:' entry stand between
\* earlier 'Status changed to:' entries and the last one, which names failed.
C32_Witness ==
    \E t \in Known :
        LET logs == task_status[t].logs
        IN  /\ task_status[t].status = "failed"
            /\ Contains(logs, StatusLine(StatusAfterOcr))
            /\ Contains(logs, "Starting Gemini extraction...")
            /\ logs[Len(logs)] = StatusLine("failed")

(* ----------------------------------------------------------- the Info sheet *)

\* C33: a rendered workbook holds the Info sheet only when it holds no other
\* sheet, also when a table's sheet was written and the lines after the write
\* raised, so that the table was not counted.
C33_InfoOnlyAlone ==
    pcD = "rendered" => (SheetsNamed(sInfo) # {} => Len(workbook.sheets) = 1)

(* ------------------------------------------------------- the upload failed *)

\* C34: when storing the uploaded document fails, the task of that upload has
\* the status failed and the message of the error from then on, the message is
\* in its log, its workflow is never spawned and none of OCR, extraction,
\* reconciliation and rendering is ever called for it.
C34_UploadFailure ==
    \A t \in TaskIds :
        raised[t].stage = "upload"
            => /\ t \in Known
               /\ task_status[t].status = "failed"
               /\ task_status[t].error = raised[t].msg
               /\ Contains(task_status[t].logs, "ERROR: " \o raised[t].msg)
               /\ writes[t] = << "received", "failed" >>
               /\ pcW[t] = "none"
               /\ invoked[t] = << >>

\* An upload failed while the workflow of another upload ran to its end.
C34_Witness ==
    \E t, u \in TaskIds :
        /\ raised[t].stage = "upload"
        /\ pcH[t] = "raised"
        /\ task_status[t].error = "Failed to upload file 'B.PDF' to GCS."
        /\ pcW[u] = "done"
        /\ task_status[u].status = StatusAfterReport

(* ------------------------------------------------- calls with an unknown id *)

\* The step is the call `op` for the id t, which the ledger does not hold.
UnknownIdCall(op, t) ==
    /\ ~Found(task_status, t)
    /\ lastCall'.op = op
    /\ lastCall'.task_id = t

\* C35: a status write for an id that is not in the ledger creates an entry for
\* that id with the given status and a log of one line, and add_task_log for an
\* id that is not in the ledger leaves the ledger unchanged.
C35_UnknownIdOneLine ==
    [][ \A t \in LedgerIds :
            /\ UnknownIdCall("update_task_status", t)
                   => /\ Found(task_status', t)
                      /\ task_status'[t].status = lastCall'.status
                      /\ Len(task_status'[t].logs) = 1
            /\ UnknownIdCall("add_task_log", t) => task_status' = task_status ]_vars

\* C35, amended: a status write for an id that is not in the ledger creates an
\* entry for that id with the given status and a log whose last line is 'Status
\* changed to: <status>', the only line unless a non-empty error is given, which
\* is recorded and puts the line 'ERROR: <message>' before it; add_task_log for
\* an id that is not in the ledger leaves the ledger unchanged.
C35_UnknownId ==
    [][ \A t \in LedgerIds :
            /\ UnknownIdCall("update_task_status", t)
                   => /\ Found(task_status', t)
                      /\ task_status'[t].status = lastCall'.status
                      /\ task_status'[t].logs =
                            (IF Truthy(lastCall'.error)
                             THEN << "ERROR: " \o lastCall'.error >> ELSE << >>)
                            \o << StatusLine(lastCall'.status) >>
                      /\ task_status'[t].error =
                            (IF Truthy(lastCall'.error) THEN lastCall'.error ELSE ABSENT)
                      /\ task_status'[t].filename = ABSENT
            /\ UnknownIdCall("add_task_log", t) => task_status' = task_status ]_vars

\* The ledger after add_task_log and then update_task_status with an error, both
\* for an id it did not hold: the first call left nothing, the second the entry
\* with its two lines.
C35_Witness ==
    /\ ncalls = 2
    /\ lastCall.op = "update_task_status"
    /\ lastCall.error = "boom"
    /\ Known = { lastCall.task_id }
    /\ task_status[lastCall.task_id].status = "failed"
    /\ task_status[lastCall.task_id].logs
          = << "ERROR: boom", StatusLine("failed") >>

====
